---- MODULE Spec2Model ----
(***************************************************************************)
(* vutrace: trace ingestion (parse_trace) and snapshot navigation          *)
(* (walk_until_pc_equal, walk_until_mem_access, the key and click          *)
(* handlers of the main loop and of the windows) of src/vutrace.cpp.       *)
(*                                                                         *)
(* Indices into app.snapshots and app.instructions are 0-based as in the   *)
(* C++ source; TLA+ sequences are 1-based, hence the "+ 1" in SnapAt.      *)
(* The values that occur stay far below 2^32, so u32 and size_t arithmetic *)
(* is written unreduced wherever the source cannot wrap within the bounds. *)
(***************************************************************************)
EXTENDS Integers, Sequences, FiniteSets, TLC

(***************************************************************************)
(* Bounds of the model.                                                    *)
(***************************************************************************)
\* number of instruction slots (VU1_PROGSIZE / INSN_PAIR_SIZE; 2048 in the program)
ProgSlots == 2
\* size of the data memory image in bytes (VU1_MEMSIZE; 0x4000 in the program)
MemSize == 32
\* most PushSnapshot packets accepted in one stream
MaxSnapshots == 2
\* most PushSnapshot packets accepted in a stream without access packets
FlowSnapshots == 5
\* most PushSnapshot packets accepted in a stream of access packets
AccessSnapshots == 3
\* most snapshots of a session that is navigated
NavSnapshots == 3
\* most PushSnapshot packets accepted in a stream of packets of every type
StoreSnapshots == 2

(***************************************************************************)
(* Program constants.                                                      *)
(***************************************************************************)
INSN_PAIR_SIZE == 8
VU1_PROGSIZE == ProgSlots * INSN_PAIR_SIZE
VU1_MEMSIZE == MemSize
\* index of the program counter in VURegs::VI
TPC == 26
\* number of VF and of VI registers
NumRegs == 32
\* granularity of the memory access match, 0x10
AccessBlock == 16
\* newest supported format version
MaxVersion == 3
\* bytes per row of the memory window
row_size == 16
\* sizes of the magic tag and of the version field of the header
MagicSize == 4
VersionSize == 4
\* highest register index of a PatchRegister packet: 0..31 VF, 32..63 VI, ACC, q, p
LastRegIndex == 66
\* bytes a PatchMemory packet writes, sizeof(u32)
PatchSize == 4
\* the character codes decode_hex compares with: '0', '9', 'A', 'Z', 'a', 'z'
Char0 == 48
Char9 == 57
CharA == 65
CharZ == 90
CharLowerA == 97
CharLowerZ == 122

VARIABLES
    phase,                  \* "header", "packets", "gui", "exited" or "crashed"
    version,                \* parse_trace: version
    current,                \* parse_trace: Snapshot current
    snapshots,              \* app.snapshots
    instructions,           \* app.instructions
    current_snapshot,       \* app.current_snapshot
    snapshots_scroll_to,    \* app.snapshots_scroll_to
    disassembly_scroll_to,  \* app.disassembly_scroll_to
    pushes,                 \* history: PushSnapshot packets applied so far
    pending_load,           \* history: payload of the last LoadOp since the last push
    pending_store,          \* history: payload of the last StoreOp since the last push
    attributed,             \* history: <<pending_load, pending_store>> at each accepted push
    nav,                    \* history: the last navigation operation and its outcome
    found_bytes,            \* memory_window: static MessageBoxState found_bytes
    shown,                  \* disassembly_window: the fall-through counts it last drew
    trace                   \* history: the head of the stream and what the process
                            \* printed about it when it gave up

vars == <<phase, version, current, snapshots, instructions, current_snapshot,
          snapshots_scroll_to, disassembly_scroll_to, pushes, pending_load,
          pending_store, attributed, nav, found_bytes, shown, trace>>

appvars == <<snapshots, instructions, current_snapshot, snapshots_scroll_to,
             disassembly_scroll_to>>

history == <<pushes, pending_load, pending_store, attributed, nav>>

\* the state of the windows that parse_trace has no access to
windows == <<found_bytes, shown>>

(***************************************************************************)
(* struct Snapshot, struct Instruction                                     *)
(***************************************************************************)
\* the fields of VURegs that the register structures of every version have
LegacyFields == {"VF", "VI", "ACC", "q", "p"}

\* rest: what VURegs holds besides LegacyFields
ZeroRegs ==
    [VF  |-> [i \in 0..(NumRegs - 1) |-> 0],
     VI  |-> [i \in 0..(NumRegs - 1) |-> 0],
     ACC |-> 0, q |-> 0, p |-> 0, rest |-> 0]

MemImage(b) == [a \in 0..(VU1_MEMSIZE - 1) |-> b]
ProgImage(b) == [a \in 0..(VU1_PROGSIZE - 1) |-> b]

\* contents an uninitialized byte array may be found to have
UninitFill == {0, 255}

\* `Snapshot current;`: registers and access records zeroed, arrays not initialized
NewSnapshot(bm, bp) ==
    [registers |-> ZeroRegs,
     memory |-> MemImage(bm),
     program |-> ProgImage(bp),
     read_addr |-> 0, read_size |-> 0,
     write_addr |-> 0, write_size |-> 0]

\* the locals of parse_trace once it has returned or the process has exited
NoSnapshot == NewSnapshot(0, 0)

NewInstruction ==
    [is_executed |-> FALSE,
     branch_to_times |-> <<>>,
     branch_from_times |-> <<>>,
     times_executed |-> 0,
     disassembly |-> <<>>]

PcOf(snap) == snap.registers.VI[TPC]
SnapAt(snaps, i) == snaps[i + 1]

\* std::map<u32, std::size_t>: m[k]++
MapInc(m, k) ==
    IF k \in DOMAIN m THEN [m EXCEPT ![k] = @ + 1] ELSE (k :> 1) @@ m

\* the count a map holds for k, 0 when there is no entry
MapGet(m, k) == IF k \in DOMAIN m THEN m[k] ELSE 0

RECURSIVE SumOver(_, _)
SumOver(m, keys) ==
    IF keys = {} THEN 0
    ELSE LET k == CHOOSE x \in keys : TRUE
         IN m[k] + SumOver(m, keys \ {k})

MapSum(m) == SumOver(m, DOMAIN m)

\* disassemble(&program[address], address): the external disassembler is a
\* pure function of the 8 bytes of the pair and of its address
disassemble(program, address) ==
    <<[k \in 0..(INSN_PAIR_SIZE - 1) |-> program[address + k]], address>>

\* shown before disassembly_window has drawn anything: incoming and outgoing
\* are the counts drawn for the slots that have branch_from_times and
\* branch_to_times entries
NoShown == [incoming |-> <<>>, outgoing |-> <<>>, fault |-> "none"]

\* nav when no navigation operation has run yet
\* fault names the access outside a container or the division by zero that
\* the operation ran into, pattern the bytes a search looked for
NoNav == [op |-> "none", from |-> 0, target |-> 0, step |-> 0,
          found |-> FALSE, scanned |-> <<>>, fault |-> "none", pattern |-> <<>>]

\* MessageBoxState: closed, with no text
NoMessage == [is_open |-> FALSE, text |-> <<>>]

\* what the process prints on stderr before exit(1): the message, and for an
\* invalid packet type the two values printed with it; at is the value of
\* ftell(trace) counted from the offset of the byte read at the packet boundary
NoReport == [message |-> "", packet_type |-> 0, at |-> 0]
Report(message) == [NoReport EXCEPT !.message = message]

\* a stream of which nothing has been read yet
NoHead == [len4 |-> FALSE, magic |-> FALSE, len8 |-> FALSE, field |-> 0]
NoTrace == [head |-> NoHead, start |-> 0, report |-> NoReport]

Init ==
    /\ phase = "header"
    /\ version = 0
    /\ \E b \in UninitFill : current = NewSnapshot(b, b)
    /\ snapshots = <<>>
    /\ instructions = [s \in 0..(VU1_PROGSIZE \div INSN_PAIR_SIZE - 1) |-> NewInstruction]
    /\ current_snapshot = 0
    /\ snapshots_scroll_to = FALSE
    /\ disassembly_scroll_to = FALSE
    /\ pushes = 0
    /\ pending_load = <<0, 0>>
    /\ pending_store = <<0, 0>>
    /\ attributed = <<>>
    /\ nav = NoNav
    /\ found_bytes = NoMessage
    /\ shown = NoShown
    /\ trace = NoTrace

(***************************************************************************)
(* parse_trace: the header                                                 *)
(***************************************************************************)
\* the process has called exit(1); the locals of parse_trace are gone
\* an error that is printed without leaving the process
Exit_CarryOn ==
    /\ phase' = phase
    /\ version' = version
    /\ current' = current

Exit ==
    /\ phase' = "exited"
    /\ version' = 0
    /\ current' = NoSnapshot

\* A stream head: len4 says whether the stream holds at least 4 bytes,
\* magic whether these are "VUTR", len8 whether 4 more bytes follow them,
\* field is the value of those bytes.
HeaderVersion(head) == IF head.magic THEN head.field ELSE 1

\* a gate that takes the newest version for too new
VersionSupported_BelowNewest(v) == ~(v >= MaxVersion)

VersionSupported(v) == ~(v > MaxVersion)

\* the offset at which the packets start: behind the magic and the version
\* field, or at the start of the stream after fseek(trace, 0, SEEK_SET)
PacketsStart(head) == IF head.magic THEN MagicSize + VersionSize ELSE 0

ReadHeader(head) ==
    /\ phase = "header"
    /\ IF ~head.len4
       THEN /\ Exit
            /\ trace' = [head |-> head, start |-> 0,
                         report |-> Report("Unexpected end of file")]
       ELSE IF head.magic /\ ~head.len8
       THEN /\ Exit
            /\ trace' = [head |-> head, start |-> 0,
                         report |-> Report("Unexpected end of file")]
       ELSE IF ~VersionSupported(HeaderVersion(head))
       THEN /\ Exit
            /\ trace' = [head |-> head, start |-> 0,
                         report |-> Report("Format version too new")]
       ELSE /\ phase' = "packets"
            /\ version' = HeaderVersion(head)
            /\ current' = current
            /\ trace' = [head |-> head, start |-> PacketsStart(head),
                         report |-> NoReport]
    /\ UNCHANGED <<appvars, history, windows>>

(***************************************************************************)
(* parse_trace: case VUTRACE_PUSHSNAPSHOT                                  *)
(***************************************************************************)
PcValid_NoAlignment(pc) == ~(pc >= VU1_PROGSIZE)

PcValid(pc) == ~(pc >= VU1_PROGSIZE \/ pc % INSN_PAIR_SIZE # 0)

PushBack_Overwrite(snaps, cur) ==
    IF Len(snaps) >= 1 THEN [snaps EXCEPT ![Len(snaps)] = cur] ELSE Append(snaps, cur)

\* a push at the front of the store
PushBack_Front(snaps, cur) == <<cur>> \o snaps

PushBack(snaps, cur) == Append(snaps, cur)

\* "A branch has taken place."
BranchTaken_NotEqual(last_pc, pc) == last_pc # pc

BranchTaken(last_pc, pc) == last_pc + INSN_PAIR_SIZE # pc

MarkExecuted(instrs, pc) ==
    [instrs EXCEPT ![pc \div INSN_PAIR_SIZE].is_executed = TRUE]

CountBranchTo_KeyedBySource(instrs, last_pc, pc) ==
    [instrs EXCEPT ![last_pc \div INSN_PAIR_SIZE].branch_to_times = MapInc(@, last_pc)]

CountBranchTo(instrs, last_pc, pc) ==
    [instrs EXCEPT ![last_pc \div INSN_PAIR_SIZE].branch_to_times = MapInc(@, pc)]

CountBranchFrom_Swapped(instrs, last_pc, pc) ==
    [instrs EXCEPT ![last_pc \div INSN_PAIR_SIZE].branch_from_times = MapInc(@, pc)]

CountBranchFrom(instrs, last_pc, pc) ==
    [instrs EXCEPT ![pc \div INSN_PAIR_SIZE].branch_from_times = MapInc(@, last_pc)]

CountExecution_Once(instrs, pc) ==
    [instrs EXCEPT ![pc \div INSN_PAIR_SIZE].times_executed = 1]

CountExecution(instrs, pc) ==
    [instrs EXCEPT ![pc \div INSN_PAIR_SIZE].times_executed = @ + 1]

\* the bookkeeping done after app.snapshots.push_back(current); snaps is the
\* store with the new snapshot in it
FlowUpdate(instrs, snaps, pc) ==
    LET marked == MarkExecuted(instrs, pc)
        branched ==
            IF Len(snaps) >= 2
            THEN LET last_pc == PcOf(SnapAt(snaps, Len(snaps) - 2))
                 IN IF BranchTaken(last_pc, pc)
                    THEN CountBranchFrom(CountBranchTo(marked, last_pc, pc), last_pc, pc)
                    ELSE marked
            ELSE marked
    IN CountExecution(branched, pc)

ResetAccess_ReadOnly(cur) ==
    [cur EXCEPT !.read_addr = 0, !.read_size = 0]

ResetAccess(cur) ==
    [cur EXCEPT !.read_addr = 0, !.read_size = 0, !.write_addr = 0, !.write_size = 0]

\* the accumulator is appended before its program counter is looked at
PushSnapshot_AppendFirst ==
    /\ phase = "packets"
    /\ pushes' = pushes + 1
    /\ snapshots' = PushBack(snapshots, current)
    /\ IF ~PcValid(PcOf(current))
       THEN /\ Exit
            /\ trace' = [trace EXCEPT !.report = Report("Bad program counter value")]
            /\ UNCHANGED <<instructions, current_snapshot, snapshots_scroll_to,
                           disassembly_scroll_to, pending_load, pending_store,
                           attributed, nav, windows>>
       ELSE /\ instructions' = FlowUpdate(instructions, snapshots', PcOf(current))
            /\ current' = ResetAccess(current)
            /\ attributed' = Append(attributed, <<pending_load, pending_store>>)
            /\ pending_load' = <<0, 0>>
            /\ pending_store' = <<0, 0>>
            /\ UNCHANGED <<phase, version, current_snapshot, snapshots_scroll_to,
                           disassembly_scroll_to, nav, windows, trace>>

PushSnapshot ==
    /\ phase = "packets"
    /\ pushes' = pushes + 1
    /\ IF ~PcValid(PcOf(current))
       THEN /\ Exit
            /\ trace' = [trace EXCEPT !.report = Report("Bad program counter value")]
            /\ UNCHANGED <<appvars, pending_load, pending_store, attributed, nav, windows>>
       ELSE /\ snapshots' = PushBack(snapshots, current)
            /\ instructions' = FlowUpdate(instructions, snapshots', PcOf(current))
            /\ current' = ResetAccess(current)
            /\ attributed' = Append(attributed, <<pending_load, pending_store>>)
            /\ pending_load' = <<0, 0>>
            /\ pending_store' = <<0, 0>>
            /\ UNCHANGED <<phase, version, current_snapshot, snapshots_scroll_to,
                           disassembly_scroll_to, nav, windows, trace>>

(***************************************************************************)
(* parse_trace: the packets that edit `current`                            *)
(***************************************************************************)
\* versions 1 and 2 assign the structure that was read as a whole
SetRegisters_LegacyWhole(payload) ==
    /\ phase = "packets"
    /\ current' =
          IF version = 1 \/ version = 2
          THEN [current EXCEPT !.registers = payload]
          ELSE [current EXCEPT !.registers.VF = payload.VF, !.registers.VI = payload.VI,
                               !.registers.ACC = payload.ACC, !.registers.q = payload.q,
                               !.registers.p = payload.p]
    /\ UNCHANGED <<phase, version, appvars, history, windows, trace>>

\* payload: the register structure of the stream's version, as read by fread
SetRegisters(payload) ==
    /\ phase = "packets"
    /\ current' =
          IF version = 1
          THEN [current EXCEPT !.registers.VF = payload.VF, !.registers.VI = payload.VI,
                               !.registers.ACC = payload.ACC, !.registers.q = payload.q,
                               !.registers.p = payload.p]
          ELSE IF version = 2
          THEN [current EXCEPT !.registers.VF = payload.VF, !.registers.VI = payload.VI,
                               !.registers.ACC = payload.ACC, !.registers.q = payload.q,
                               !.registers.p = payload.p]
          ELSE [current EXCEPT !.registers.VF = payload.VF, !.registers.VI = payload.VI,
                               !.registers.ACC = payload.ACC, !.registers.q = payload.q,
                               !.registers.p = payload.p]
    /\ UNCHANGED <<phase, version, appvars, history, windows, trace>>

\* case VUTRACE_SETMEMORY: image is the VU1_MEMSIZE bytes of the payload
SetMemory(image) ==
    /\ phase = "packets"
    /\ current' = [current EXCEPT !.memory = image]
    /\ UNCHANGED <<phase, version, appvars, history, windows, trace>>

\* case VUTRACE_SETINSTRUCTIONS: image is the VU1_PROGSIZE bytes of the payload
SetInstructions(image) ==
    /\ phase = "packets"
    /\ current' = [current EXCEPT !.program = image]
    /\ UNCHANGED <<phase, version, appvars, history, windows, trace>>

\* the packet is read into both access records
LoadOp_BothRecords(addr, size) ==
    /\ phase = "packets"
    /\ current' = [current EXCEPT !.read_addr = addr, !.read_size = size,
                                  !.write_addr = addr, !.write_size = size]
    /\ pending_load' = <<addr, size>>
    /\ UNCHANGED <<phase, version, appvars, pushes, pending_store, attributed, nav,
                   windows, trace>>

LoadOp(addr, size) ==
    /\ phase = "packets"
    /\ current' = [current EXCEPT !.read_addr = addr, !.read_size = size]
    /\ pending_load' = <<addr, size>>
    /\ UNCHANGED <<phase, version, appvars, pushes, pending_store, attributed, nav,
                   windows, trace>>

StoreOp(addr, size) ==
    /\ phase = "packets"
    /\ current' = [current EXCEPT !.write_addr = addr, !.write_size = size]
    /\ pending_store' = <<addr, size>>
    /\ UNCHANGED <<phase, version, appvars, pushes, pending_load, attributed, nav,
                   windows, trace>>

\* data: the value the 16 payload bytes give the register they are copied over
\* the memcpy of the branch that index selects, for an index up to LastRegIndex
\* q and p taken for each other
PatchedRegisters_QForP(regs, index, data) ==
    IF index < 32 THEN [regs EXCEPT !.VF[index] = data]
    ELSE IF index < 64 THEN [regs EXCEPT !.VI[index - 32] = data]
    ELSE IF index = 64 THEN [regs EXCEPT !.ACC = data]
    ELSE IF index = 65 THEN [regs EXCEPT !.p = data]
    ELSE [regs EXCEPT !.q = data]

PatchedRegisters(regs, index, data) ==
    IF index < 32 THEN [regs EXCEPT !.VF[index] = data]
    ELSE IF index < 64 THEN [regs EXCEPT !.VI[index - 32] = data]
    ELSE IF index = 64 THEN [regs EXCEPT !.ACC = data]
    ELSE IF index = 65 THEN [regs EXCEPT !.q = data]
    ELSE [regs EXCEPT !.p = data]

PatchRegister(index, data) ==
    /\ phase = "packets"
    /\ IF index <= LastRegIndex
       THEN /\ current' = [current EXCEPT !.registers = PatchedRegisters(@, index, data)]
            /\ UNCHANGED <<phase, version, trace>>
       ELSE /\ Exit
            /\ trace' = [trace EXCEPT !.report = Report("bad register index")]
    /\ UNCHANGED <<appvars, history, windows>>

\* case VUTRACE_PATCHMEMORY: bytes are the 4 bytes read into data, which
\* memcpy copies as they are
PatchedMemory(memory, address, bytes) ==
    [a \in DOMAIN memory |->
        IF a >= address /\ a < address + PatchSize THEN bytes[a - address + 1]
        ELSE memory[a]]

PatchMemory(address, bytes) ==
    /\ phase = "packets"
    /\ IF address < VU1_MEMSIZE - 4
       THEN /\ current' = [current EXCEPT !.memory = PatchedMemory(@, address, bytes)]
            /\ UNCHANGED <<phase, version, trace>>
       ELSE /\ Exit
            /\ trace' = [trace EXCEPT !.report = Report("address that is too big")]
    /\ UNCHANGED <<appvars, history, windows>>

\* check_eof: the stream ends inside the payload of a packet
UnexpectedEof ==
    /\ phase = "packets"
    /\ Exit
    /\ trace' = [trace EXCEPT !.report = Report("Unexpected end of file")]
    /\ UNCHANGED <<appvars, history, windows>>

\* default: the byte at the packet boundary is no packet type.  fread has
\* consumed the byte, so ftell(trace) is the offset of the byte behind it.
InvalidPacket(byte) ==
    /\ phase = "packets"
    /\ Exit
    /\ trace' = [trace EXCEPT !.report =
                     [message |-> "Invalid packet type", packet_type |-> byte, at |-> 1]]
    /\ UNCHANGED <<appvars, history, windows>>

\* fread returns 0 at end of file: the stream is closed, every slot is
\* disassembled from current.program and parse_trace returns
Disassemble(instrs, program) ==
    [s \in DOMAIN instrs |->
        [instrs[s] EXCEPT !.disassembly = disassemble(program, s * INSN_PAIR_SIZE)]]

\* the slots are disassembled from the image of the last snapshot stored
EndOfStream_StoredImage ==
    /\ phase = "packets"
    /\ instructions' =
          Disassemble(instructions,
                      IF Len(snapshots) > 0 THEN snapshots[Len(snapshots)].program
                      ELSE current.program)
    /\ phase' = "gui"
    /\ version' = 0
    /\ current' = NoSnapshot
    /\ pending_load' = <<0, 0>>
    /\ pending_store' = <<0, 0>>
    /\ UNCHANGED <<snapshots, current_snapshot, snapshots_scroll_to,
                   disassembly_scroll_to, pushes, attributed, nav, windows, trace>>

\* the session opens on the last snapshot of the store
EndOfStream_CursorLast ==
    /\ phase = "packets"
    /\ instructions' = Disassemble(instructions, current.program)
    /\ phase' = "gui"
    /\ version' = 0
    /\ current' = NoSnapshot
    /\ pending_load' = <<0, 0>>
    /\ pending_store' = <<0, 0>>
    /\ current_snapshot' = IF Len(snapshots) > 0 THEN Len(snapshots) - 1 ELSE 0
    /\ UNCHANGED <<snapshots, snapshots_scroll_to,
                   disassembly_scroll_to, pushes, attributed, nav, windows, trace>>

EndOfStream ==
    /\ phase = "packets"
    /\ instructions' = Disassemble(instructions, current.program)
    /\ phase' = "gui"
    /\ version' = 0
    /\ current' = NoSnapshot
    /\ pending_load' = <<0, 0>>
    /\ pending_store' = <<0, 0>>
    /\ UNCHANGED <<snapshots, current_snapshot, snapshots_scroll_to,
                   disassembly_scroll_to, pushes, attributed, nav, windows, trace>>

(***************************************************************************)
(* Navigation                                                              *)
(***************************************************************************)
\* the loop of walk_until_pc_equal from index snapshot: the index it stops
\* at and whether it left the loop through its condition
\* a while loop in place of the do-while: the starting index is tested too
RECURSIVE WalkPc_TestFirst(_, _, _, _)
WalkPc_TestFirst(snaps, snapshot, target_pc, step) ==
    IF PcOf(SnapAt(snaps, snapshot)) = target_pc
    THEN [found |-> TRUE, index |-> snapshot]
    ELSE IF -step > snapshot \/ snapshot + step >= Len(snaps)
         THEN [found |-> FALSE, index |-> snapshot]
         ELSE WalkPc_TestFirst(snaps, snapshot + step, target_pc, step)

\* a walk back that gives up one index early
RECURSIVE WalkPc_StopsShort(_, _, _, _)
WalkPc_StopsShort(snaps, snapshot, target_pc, step) ==
    IF -step >= snapshot \/ snapshot + step >= Len(snaps)
    THEN [found |-> FALSE, index |-> snapshot]
    ELSE IF PcOf(SnapAt(snaps, snapshot + step)) # target_pc
         THEN WalkPc_StopsShort(snaps, snapshot + step, target_pc, step)
         ELSE [found |-> TRUE, index |-> snapshot + step]

RECURSIVE WalkPc(_, _, _, _)
WalkPc(snaps, snapshot, target_pc, step) ==
    IF -step > snapshot \/ snapshot + step >= Len(snaps)
    THEN [found |-> FALSE, index |-> snapshot]
    ELSE IF PcOf(SnapAt(snaps, snapshot + step)) # target_pc
         THEN WalkPc(snaps, snapshot + step, target_pc, step)
         ELSE [found |-> TRUE, index |-> snapshot + step]

\* the test of walk_until_mem_access on one snapshot
\* a test of the block alone, whatever the size of the access
AccessMatches_AnySize(snap, address) ==
    \/ snap.read_addr \div AccessBlock = address \div AccessBlock
    \/ snap.write_addr \div AccessBlock = address \div AccessBlock

AccessMatches(snap, address) ==
    \/ (snap.read_size > 0
        /\ snap.read_addr \div AccessBlock = address \div AccessBlock)
    \/ (snap.write_size > 0
        /\ snap.write_addr \div AccessBlock = address \div AccessBlock)

\* whether the do-while of walk_until_mem_access goes round again
\* a scan that stops at the end of the store
ScanContinues_NoWrap(snapshot_index, start) == snapshot_index # start /\ snapshot_index # 0

ScanContinues(snapshot_index, start) == snapshot_index # start

\* the loop of walk_until_mem_access: the index it stops at, whether it
\* stopped on a match, and the indices it tested, in order
RECURSIVE MemScan(_, _, _, _, _)
MemScan(snaps, start, snapshot_index, address, scanned) ==
    LET next == (snapshot_index + 1) % Len(snaps)
        seen == Append(scanned, next)
    IN IF AccessMatches(SnapAt(snaps, next), address)
       THEN [found |-> TRUE, index |-> next, scanned |-> seen]
       ELSE IF ScanContinues(next, start)
            THEN MemScan(snaps, start, next, address, seen)
            ELSE [found |-> FALSE, index |-> next, scanned |-> seen]

\* where walk_until_mem_access leaves the cursor after a match at index
MemAccessCursor_NoStepBack(cursor, index) == IF index >= 1 THEN index ELSE cursor

MemAccessCursor(cursor, index) == IF index >= 1 THEN index - 1 ELSE cursor

\* every frame reads app.snapshots[app.current_snapshot]
FrameReady == phase = "gui" /\ Len(snapshots) > 0

\* main: ImGuiKey_W
KeyW ==
    /\ FrameReady
    /\ IF current_snapshot > 0
       THEN /\ current_snapshot' = current_snapshot - 1
            /\ snapshots_scroll_to' = TRUE
            /\ disassembly_scroll_to' = TRUE
       ELSE UNCHANGED <<current_snapshot, snapshots_scroll_to, disassembly_scroll_to>>
    /\ nav' = [NoNav EXCEPT !.op = "prev", !.from = current_snapshot]
    /\ UNCHANGED <<phase, version, current, snapshots, instructions,
                   pushes, pending_load, pending_store, attributed, windows, trace>>

\* main: ImGuiKey_S
KeyS ==
    /\ FrameReady
    /\ IF current_snapshot < Len(snapshots) - 1
       THEN /\ current_snapshot' = current_snapshot + 1
            /\ snapshots_scroll_to' = TRUE
            /\ disassembly_scroll_to' = TRUE
       ELSE UNCHANGED <<current_snapshot, snapshots_scroll_to, disassembly_scroll_to>>
    /\ nav' = [NoNav EXCEPT !.op = "next", !.from = current_snapshot]
    /\ UNCHANGED <<phase, version, current, snapshots, instructions,
                   pushes, pending_load, pending_store, attributed, windows, trace>>

\* walk_until_pc_equal(app, target_pc, step)
walk_until_pc_equal(target_pc, step) ==
    LET w == WalkPc(snapshots, current_snapshot, target_pc, step)
    IN /\ IF w.found
          THEN /\ current_snapshot' = w.index
               /\ snapshots_scroll_to' = TRUE
          ELSE UNCHANGED <<current_snapshot, snapshots_scroll_to>>
       /\ nav' = [NoNav EXCEPT !.op = "pc_equal", !.from = current_snapshot,
                               !.target = target_pc, !.step = step, !.found = w.found]

\* main: ImGuiKey_A, ImGuiKey_D; snapshots_window: the buttons " < " and " > "
SeekSamePc(step) ==
    /\ FrameReady
    /\ walk_until_pc_equal(PcOf(SnapAt(snapshots, current_snapshot)), step)
    /\ UNCHANGED <<phase, version, current, snapshots, instructions,
                   disassembly_scroll_to, pushes, pending_load, pending_store, attributed,
                   windows, trace>>

\* disassembly_window: a frame in which the row of address i is clicked.
\* The row of the program counter is drawn after row i when the program
\* counter is above i, and before it otherwise. nav.scanned holds the
\* cursor after each call of walk_until_pc_equal.
ClickInstruction(i) ==
    /\ FrameReady
    /\ instructions[i \div INSN_PAIR_SIZE].is_executed
    /\ PcOf(SnapAt(snapshots, current_snapshot)) # i
    /\ LET pc == PcOf(SnapAt(snapshots, current_snapshot))
           first == IF pc > i THEN -1 ELSE 1
           w1 == WalkPc(snapshots, current_snapshot, i, first)
           w2 == WalkPc(snapshots, current_snapshot, i, -first)
           pc_changed == w1.found \/ w2.found
       IN /\ IF pc_changed
             THEN /\ current_snapshot' = IF w1.found THEN w1.index ELSE w2.index
                  /\ snapshots_scroll_to' = TRUE
             ELSE UNCHANGED <<current_snapshot, snapshots_scroll_to>>
          /\ disassembly_scroll_to' = (pc_changed /\ pc < i)
          /\ nav' = [NoNav EXCEPT !.op = "click", !.from = current_snapshot,
                                  !.target = i, !.step = first, !.found = pc_changed,
                                  !.scanned =
                                      IF w1.found THEN <<w1.index>>
                                      ELSE <<current_snapshot,
                                             IF w2.found THEN w2.index
                                             ELSE current_snapshot>>]
    /\ UNCHANGED <<phase, version, current, snapshots, instructions,
                   pushes, pending_load, pending_store, attributed, windows, trace>>

\* snapshots_window: ImGui::Selectable of list entry i
SelectSnapshot(i) ==
    /\ FrameReady
    /\ i < Len(snapshots)
    /\ current_snapshot' = i
    /\ disassembly_scroll_to' = TRUE
    /\ nav' = [NoNav EXCEPT !.op = "select", !.target = i]
    /\ UNCHANGED <<phase, version, current, snapshots, instructions,
                   snapshots_scroll_to, pushes, pending_load, pending_store, attributed,
                   windows, trace>>

\* walk_until_mem_access(app, address), called by memory_window for the
\* byte button at address
walk_until_mem_access(address) ==
    /\ FrameReady
    /\ LET m == MemScan(snapshots, current_snapshot, current_snapshot, address, <<>>)
       IN /\ IF m.found /\ m.index >= 1
             THEN /\ current_snapshot' = MemAccessCursor(current_snapshot, m.index)
                  /\ snapshots_scroll_to' = TRUE
                  /\ disassembly_scroll_to' = TRUE
             ELSE UNCHANGED <<current_snapshot, snapshots_scroll_to, disassembly_scroll_to>>
          /\ nav' = [NoNav EXCEPT !.op = "mem_access", !.from = current_snapshot,
                                  !.target = address, !.found = m.found,
                                  !.scanned = m.scanned]
    /\ UNCHANGED <<phase, version, current, snapshots, instructions,
                   pushes, pending_load, pending_store, attributed, windows, trace>>

\* What the process does once it has read app.snapshots[i] with i past the
\* end of the store, or has divided by the size of an empty store: the
\* behaviour is undefined, the process is killed or it carries on.
UndefinedOutcomes == {"crashed", "gui"}

\* main: ImGuiKey_A, ImGuiKey_D, and the buttons " < " and " > ", in a session
\* with an empty store: the program counter is read from app.snapshots[0].
\* If the process carries on, walk_until_pc_equal returns false at once.
SeekSamePcEmptyStore(step) ==
    /\ phase = "gui"
    /\ Len(snapshots) = 0
    /\ \E outcome \in UndefinedOutcomes : phase' = outcome
    /\ nav' = [NoNav EXCEPT !.op = "pc_equal", !.from = current_snapshot,
                            !.step = step, !.fault = "index out of range"]
    /\ UNCHANGED <<version, current, appvars, pushes, pending_load, pending_store,
                   attributed, windows, trace>>

\* main: ImGuiKey_W in a session with an empty store; the frame goes on to
\* read the program counter from app.snapshots[app.current_snapshot]
KeyWEmptyStore ==
    /\ phase = "gui"
    /\ Len(snapshots) = 0
    /\ IF current_snapshot > 0
       THEN /\ current_snapshot' = current_snapshot - 1
            /\ snapshots_scroll_to' = TRUE
            /\ disassembly_scroll_to' = TRUE
       ELSE UNCHANGED <<current_snapshot, snapshots_scroll_to, disassembly_scroll_to>>
    /\ \E outcome \in UndefinedOutcomes : phase' = outcome
    /\ nav' = [NoNav EXCEPT !.op = "prev", !.from = current_snapshot,
                            !.fault = "index out of range"]
    /\ UNCHANGED <<version, current, snapshots, instructions,
                   pushes, pending_load, pending_store, attributed, windows, trace>>

\* main: ImGuiKey_S in a session with an empty store: app.snapshots.size() - 1
\* wraps to the largest std::size_t, which the cursor is below; the frame
\* goes on to read the program counter from app.snapshots[app.current_snapshot].
\* The cursor is followed up to NavSnapshots.
KeySEmptyStore ==
    /\ phase = "gui"
    /\ Len(snapshots) = 0
    /\ current_snapshot < NavSnapshots
    /\ current_snapshot' = current_snapshot + 1
    /\ snapshots_scroll_to' = TRUE
    /\ disassembly_scroll_to' = TRUE
    /\ \E outcome \in UndefinedOutcomes : phase' = outcome
    /\ nav' = [NoNav EXCEPT !.op = "next", !.from = current_snapshot,
                            !.fault = "index out of range"]
    /\ UNCHANGED <<version, current, snapshots, instructions,
                   pushes, pending_load, pending_store, attributed, windows, trace>>

\* walk_until_mem_access(app, address) in a session with an empty store:
\* (snapshot_index + 1) % app.snapshots.size() divides by zero
MemAccessEmptyStore(address) ==
    /\ phase = "gui"
    /\ Len(snapshots) = 0
    /\ \E outcome \in UndefinedOutcomes : phase' = outcome
    /\ nav' = [NoNav EXCEPT !.op = "mem_access", !.from = current_snapshot,
                            !.target = address, !.fault = "modulo by zero"]
    /\ UNCHANGED <<version, current, appvars, pushes, pending_load, pending_store,
                   attributed, windows, trace>>

(***************************************************************************)
(* memory_window: the search for a byte pattern                            *)
(***************************************************************************)
\* x | y on bytes
RECURSIVE BitOr(_, _)
BitOr(x, y) ==
    IF x = 0 THEN y
    ELSE IF y = 0 THEN x
    ELSE (IF x % 2 = 1 \/ y % 2 = 1 THEN 1 ELSE 0) + 2 * BitOr(x \div 2, y \div 2)

\* decode_hex: the characters the loop does not skip, and their nibble
IsHexChar(c) ==
    \/ (c >= Char0 /\ c <= Char9)
    \/ (c >= CharA /\ c <= CharZ)
    \/ (c >= CharLowerA /\ c <= CharLowerZ)

Nibble(c) ==
    IF c >= Char0 /\ c <= Char9 THEN c - Char0
    ELSE IF c >= CharA /\ c <= CharZ THEN c - CharA + 10
    ELSE c - CharLowerA + 10

\* decode_hex: the characters that are not skipped are taken two by two;
\* the first gives current_byte = nibble << 4 (a u8), the second is or-ed
\* into it and the byte is pushed; a last character without a partner
\* pushes nothing
decode_hex(in) ==
    LET digits == SelectSeq(in, IsHexChar)
    IN [k \in 1..(Len(digits) \div 2) |->
           BitOr((Nibble(digits[2 * k - 1]) * 16) % 256, Nibble(digits[2 * k]) % 256)]

\* to_hex(n): the digits of n in base 16, most significant first
RECURSIVE to_hex(_)
to_hex(n) ==
    IF n < 16 THEN <<n>> ELSE Append(to_hex(n \div 16), n % 16)

FoundText(i) == <<"Found match at 0x", to_hex(i)>>
NoMatchText == <<"No match found">>

\* memcmp(value_raw.data(), &current.memory[i], value_raw.size()) == 0,
\* for i + value_raw.size() <= VU1_MEMSIZE
MemcmpEqual(memory, value_raw, i) ==
    \A k \in 1..Len(value_raw) : memory[i + k - 1] = value_raw[k]

\* the loop of the search, for value_raw.size() <= VU1_MEMSIZE: i runs from
\* 0 while i < VU1_MEMSIZE - value_raw.size() and the loop breaks at the
\* first i at which memcmp finds no difference; the text left in found_bytes
SearchText(memory, value_raw) ==
    LET tested == {i \in 0..(VU1_MEMSIZE - 1) : i < VU1_MEMSIZE - Len(value_raw)}
        equal == {i \in tested : MemcmpEqual(memory, value_raw, i)}
    IN IF equal = {} THEN NoMatchText
       ELSE FoundText(CHOOSE i \in equal : \A j \in equal : i <= j)

\* "Find Bytes" confirmed with text.  VU1_MEMSIZE - value_raw.size() is a
\* std::size_t: with a pattern longer than the memory image it wraps to a
\* huge bound, and memcmp reads past the end of current.memory from the
\* first round on; what the process does then is not defined.
FindBytes(text) ==
    /\ FrameReady
    /\ ~found_bytes.is_open
    /\ LET value_raw == decode_hex(text)
           memory == SnapAt(snapshots, current_snapshot).memory
       IN IF Len(value_raw) > VU1_MEMSIZE
          THEN /\ \E outcome \in UndefinedOutcomes : phase' = outcome
               /\ \E found \in {FoundText(0), NoMatchText} :
                     found_bytes' = [is_open |-> TRUE, text |-> found]
               /\ nav' = [NoNav EXCEPT !.op = "find_bytes", !.from = current_snapshot,
                                       !.pattern = value_raw,
                                       !.fault = "read outside memory"]
          ELSE /\ phase' = phase
               /\ found_bytes' = [is_open |-> TRUE,
                                  text |-> SearchText(memory, value_raw)]
               /\ nav' = [NoNav EXCEPT !.op = "find_bytes", !.from = current_snapshot,
                                       !.pattern = value_raw]
    /\ UNCHANGED <<version, current, appvars, pushes, pending_load, pending_store,
                   attributed, shown, trace>>

\* alert(found_bytes, "Found Bytes"): the button "Close"
CloseFoundBytes ==
    /\ FrameReady
    /\ found_bytes.is_open
    /\ found_bytes' = NoMessage
    /\ UNCHANGED <<phase, version, current, appvars, history, shown, trace>>

\* what a read of times_executed past the last element of app.instructions
\* may find
PastEndCounts == {0, 1, 5}

\* lines 516-520: fallthrough_times starts from times_executed of the slot
\* after slot s, read as next_times, and every count of branch_from_times is
\* subtracted from it; the value is the one "%ld" prints, which is below 0
\* when the std::size_t has wrapped
IncomingFallthrough(instrs, s, next_times) ==
    next_times - MapSum(instrs[s].branch_from_times)

\* lines 538-542
OutgoingFallthrough(instrs, s) ==
    instrs[s].times_executed - MapSum(instrs[s].branch_to_times)

\* disassembly_window: a frame, in which every row is drawn with its
\* fall-through counts and the row of the program counter consumes the
\* scroll request
ShowFallthrough ==
    /\ FrameReady
    /\ LET with_from == {s \in DOMAIN instructions : instructions[s].branch_from_times # <<>>}
           with_to == {s \in DOMAIN instructions : instructions[s].branch_to_times # <<>>}
           past_end == {s \in with_from : s + 1 \notin DOMAIN instructions}
           out == [s \in with_to |-> OutgoingFallthrough(instructions, s)]
       IN IF past_end = {}
          THEN /\ phase' = phase
               /\ shown' = [incoming |->
                               [s \in with_from |->
                                   IncomingFallthrough(instructions, s,
                                                       instructions[s + 1].times_executed)],
                            outgoing |-> out, fault |-> "none"]
          ELSE /\ \E outcome \in UndefinedOutcomes : phase' = outcome
               /\ \E read \in PastEndCounts :
                     shown' = [incoming |->
                                  [s \in with_from |->
                                      IncomingFallthrough(instructions, s,
                                          IF s \in past_end THEN read
                                          ELSE instructions[s + 1].times_executed)],
                               outgoing |-> out, fault |-> "index out of range"]
    /\ disassembly_scroll_to' = FALSE
    /\ UNCHANGED <<version, current, snapshots, instructions, current_snapshot,
                   snapshots_scroll_to, history, found_bytes, trace>>

\* snapshots_window and disassembly_window consume the scroll requests
\* when they draw the selected entry
RenderSnapshots ==
    /\ FrameReady
    /\ snapshots_scroll_to
    /\ snapshots_scroll_to' = FALSE
    /\ UNCHANGED <<phase, version, current, snapshots, instructions, current_snapshot,
                   disassembly_scroll_to, history, windows, trace>>

RenderDisassembly ==
    /\ FrameReady
    /\ disassembly_scroll_to
    /\ disassembly_scroll_to' = FALSE
    /\ UNCHANGED <<phase, version, current, snapshots, instructions, current_snapshot,
                   snapshots_scroll_to, history, windows, trace>>

(***************************************************************************)
(* Inputs                                                                  *)
(***************************************************************************)
ValidPcs == {s * INSN_PAIR_SIZE : s \in 0..(ProgSlots - 1)}
\* a misaligned program counter and the first one past the program
BadPcs == {INSN_PAIR_SIZE \div 2, VU1_PROGSIZE}
PcInputs == ValidPcs \cup BadPcs

RegsWithPc(pc) == [ZeroRegs EXCEPT !.VI[TPC] = pc]

HeadInputs ==
    { [len4 |-> FALSE, magic |-> FALSE, len8 |-> FALSE, field |-> 0],
      [len4 |-> TRUE, magic |-> FALSE, len8 |-> TRUE, field |-> 0],
      [len4 |-> TRUE, magic |-> TRUE, len8 |-> FALSE, field |-> 0],
      [len4 |-> TRUE, magic |-> TRUE, len8 |-> TRUE, field |-> MaxVersion],
      [len4 |-> TRUE, magic |-> TRUE, len8 |-> TRUE, field |-> MaxVersion + 1] }

LoadInputs == {<<3, 4>>}
StoreInputs == {<<3, 4>>}
\* payloads that tell one LoadOp or StoreOp from the next
AccessInputs == {<<3, 4>>, <<18, 4>>}
\* the memory window has a button for each byte of its whole rows
LastButton == (VU1_MEMSIZE \div row_size) * row_size - 1
NavTargets == {0, LastButton}

(***************************************************************************)
(* Spec: the ingestion of one stream of PushSnapshot, SetRegisters,        *)
(* PatchRegister, LoadOp and StoreOp packets by parse_trace, up to its     *)
(* return or to the exit of the process.                                   *)
(***************************************************************************)
DoReadHeader == \E head \in HeadInputs : ReadHeader(head)
DoPushSnapshot == Len(snapshots) < MaxSnapshots /\ PushSnapshot
DoSetRegisters == \E pc \in PcInputs : SetRegisters(RegsWithPc(pc))
DoLoadOp == \E l \in LoadInputs : LoadOp(l[1], l[2])
DoStoreOp == \E st \in StoreInputs : StoreOp(st[1], st[2])
DoPatchRegister == \E index \in {32 + TPC, 67}, data \in PcInputs : PatchRegister(index, data)
DoInvalidPacket == \E byte \in {0} : InvalidPacket(byte)

Next ==
    \/ DoReadHeader
    \/ DoPushSnapshot
    \/ DoSetRegisters
    \/ DoLoadOp
    \/ DoStoreOp
    \/ DoPatchRegister
    \/ UnexpectedEof
    \/ DoInvalidPacket
    \/ EndOfStream

Spec == Init /\ [][Next]_vars

(***************************************************************************)
(* SpecFlow: the ingestion of a longer stream of PushSnapshot,             *)
(* SetRegisters and PatchRegister packets.                                 *)
(***************************************************************************)
FlowPushSnapshot == Len(snapshots) < FlowSnapshots /\ PushSnapshot

FlowNext ==
    \/ DoReadHeader
    \/ FlowPushSnapshot
    \/ DoSetRegisters
    \/ DoPatchRegister
    \/ UnexpectedEof
    \/ DoInvalidPacket
    \/ EndOfStream

SpecFlow == Init /\ [][FlowNext]_vars

(***************************************************************************)
(* SpecAccess: the ingestion of a stream of PushSnapshot, LoadOp and       *)
(* StoreOp packets with differing payloads.                                *)
(***************************************************************************)
AccessPushSnapshot == Len(snapshots) < AccessSnapshots /\ PushSnapshot
AccessLoadOp == \E l \in AccessInputs : LoadOp(l[1], l[2])
AccessStoreOp == \E st \in AccessInputs : StoreOp(st[1], st[2])

AccessNext ==
    \/ DoReadHeader
    \/ AccessPushSnapshot
    \/ AccessLoadOp
    \/ AccessStoreOp
    \/ UnexpectedEof
    \/ EndOfStream

SpecAccess == Init /\ [][AccessNext]_vars

(***************************************************************************)
(* SpecNav: the ingestion of a stream of PushSnapshot, SetRegisters and    *)
(* LoadOp packets, followed by navigation in the session it built.         *)
(***************************************************************************)
\* the program counters of the first two instruction slots
NavPcs == {0, INSN_PAIR_SIZE}

NavPushSnapshot == Len(snapshots) < NavSnapshots /\ PushSnapshot
NavSetRegisters == \E pc \in NavPcs : SetRegisters(RegsWithPc(pc))
DoSeekSamePc == \E step \in {-1, 1} : SeekSamePc(step)
DoSelectSnapshot == \E i \in 0..(NavSnapshots - 1) : SelectSnapshot(i)
DoMemAccess == \E address \in NavTargets : walk_until_mem_access(address)

NavNext ==
    \/ DoReadHeader
    \/ NavPushSnapshot
    \/ NavSetRegisters
    \/ DoLoadOp
    \/ EndOfStream
    \/ KeyW
    \/ KeyS
    \/ DoSeekSamePc
    \/ DoSelectSnapshot
    \/ DoMemAccess
    \/ RenderSnapshots
    \/ RenderDisassembly

SpecNav == Init /\ [][NavNext]_vars

(***************************************************************************)
(* SpecSeek: the ingestion of a stream of PushSnapshot, LoadOp and StoreOp *)
(* packets that touch different blocks, up to its end or to a fatal error, *)
(* followed by the seeks in the session it built, be it empty.             *)
(***************************************************************************)
SeekStoreInputs == {<<AccessBlock + 2, 4>>}

SeekPushSnapshot == Len(snapshots) < NavSnapshots /\ PushSnapshot
SeekStoreOp == \E st \in SeekStoreInputs : StoreOp(st[1], st[2])
DoSeekSamePcEmptyStore == \E step \in {-1, 1} : SeekSamePcEmptyStore(step)
DoMemAccessEmptyStore == \E address \in NavTargets : MemAccessEmptyStore(address)

SeekNext ==
    \/ DoReadHeader
    \/ SeekPushSnapshot
    \/ DoLoadOp
    \/ SeekStoreOp
    \/ UnexpectedEof
    \/ DoInvalidPacket
    \/ EndOfStream
    \/ DoSeekSamePc
    \/ DoSelectSnapshot
    \/ DoMemAccess
    \/ DoSeekSamePcEmptyStore
    \/ DoMemAccessEmptyStore

SpecSeek == Init /\ [][SeekNext]_vars

(***************************************************************************)
(* SpecSearch: the ingestion of a stream of SetMemory and PushSnapshot     *)
(* packets, followed by searches for byte patterns in the memory of the    *)
(* selected snapshot.                                                      *)
(***************************************************************************)
ImageWithOnes(S) == [a \in 0..(VU1_MEMSIZE - 1) |-> IF a \in S THEN 1 ELSE 0]
SearchImages ==
    { ImageWithOnes({}), ImageWithOnes({VU1_MEMSIZE - 1}),
      ImageWithOnes({5, VU1_MEMSIZE - 1}) }

\* the text of n bytes 00
ZerosText(n) == [k \in 1..(2 * n) |-> Char0]
\* "", "01", "0001", "0 1 0", "1G", and as many 00 as the memory has bytes,
\* and one more
FindInputs ==
    { <<>>, <<Char0, Char0 + 1>>, <<Char0, Char0, Char0, Char0 + 1>>,
      <<Char0, 32, Char0 + 1, 32, Char0>>, <<Char0 + 1, CharA + 6>>,
      ZerosText(VU1_MEMSIZE), ZerosText(VU1_MEMSIZE + 1) }

SearchSetMemory == \E image \in SearchImages : SetMemory(image)
SearchPushSnapshot == Len(snapshots) < MaxSnapshots /\ PushSnapshot
DoFindBytes == \E text \in FindInputs : FindBytes(text)

SearchNext ==
    \/ DoReadHeader
    \/ SearchSetMemory
    \/ SearchPushSnapshot
    \/ EndOfStream
    \/ DoSelectSnapshot
    \/ DoFindBytes
    \/ CloseFoundBytes

SpecSearch == Init /\ [][SearchNext]_vars

(***************************************************************************)
(* SpecStream: the ingestion of streams with and without header, of every  *)
(* version up to the first unsupported one, holding PushSnapshot and       *)
(* SetRegisters packets and bytes that are no packet type.                 *)
(***************************************************************************)
StreamHeads ==
    { [len4 |-> FALSE, magic |-> FALSE, len8 |-> FALSE, field |-> 0],
      [len4 |-> TRUE, magic |-> FALSE, len8 |-> TRUE, field |-> 0],
      [len4 |-> TRUE, magic |-> TRUE, len8 |-> FALSE, field |-> 0] }
    \cup { [len4 |-> TRUE, magic |-> TRUE, len8 |-> TRUE, field |-> v] :
              v \in 1..(MaxVersion + 1) }

\* bytes for which the switch takes its default branch
OtherBytes == {0, 255}

StreamReadHeader == \E head \in StreamHeads : ReadHeader(head)
StreamInvalidPacket == \E byte \in OtherBytes : InvalidPacket(byte)

StreamNext ==
    \/ StreamReadHeader
    \/ DoPushSnapshot
    \/ DoSetRegisters
    \/ UnexpectedEof
    \/ StreamInvalidPacket
    \/ EndOfStream

SpecStream == Init /\ [][StreamNext]_vars

(***************************************************************************)
(* SpecRegs: the ingestion of a stream of SetRegisters, PatchRegister,     *)
(* LoadOp and StoreOp packets that patch the first and the last register   *)
(* of every class, and one past the last.                                  *)
(***************************************************************************)
\* a register file with v in every register
AllRegs(v) ==
    [VF  |-> [i \in 0..(NumRegs - 1) |-> v],
     VI  |-> [i \in 0..(NumRegs - 1) |-> v],
     ACC |-> v, q |-> v, p |-> v, rest |-> v]

RegIndices == {0, 31, 32, 63, 64, 65, LastRegIndex, LastRegIndex + 1}
PatchData == {7}

RegsSetRegisters == \E v \in {9} : SetRegisters(AllRegs(v))
RegsPatchRegister == \E index \in RegIndices, data \in PatchData : PatchRegister(index, data)

RegsNext ==
    \/ DoReadHeader
    \/ RegsSetRegisters
    \/ RegsPatchRegister
    \/ DoLoadOp
    \/ DoStoreOp
    \/ EndOfStream

SpecRegs == Init /\ [][RegsNext]_vars

(***************************************************************************)
(* SpecLegacy: the ingestion of a stream of SetRegisters and PatchRegister *)
(* packets in each of the versions 1, 2 and 3.                             *)
(***************************************************************************)
LegacyHeads ==
    {[len4 |-> TRUE, magic |-> TRUE, len8 |-> TRUE, field |-> v] : v \in 1..MaxVersion}

\* the structure of the stream's version, with v in every field of it
LegacyPayloads == {AllRegs(v) : v \in {0, 9}}
LegacyIndices == {0, 32, 64, 65, LastRegIndex}

LegacyReadHeader == \E head \in LegacyHeads : ReadHeader(head)
LegacySetRegisters == \E payload \in LegacyPayloads : SetRegisters(payload)
LegacyPatchRegister ==
    \E index \in LegacyIndices, data \in PatchData : PatchRegister(index, data)

LegacyNext ==
    \/ LegacyReadHeader
    \/ LegacySetRegisters
    \/ LegacyPatchRegister
    \/ EndOfStream

SpecLegacy == Init /\ [][LegacyNext]_vars

(***************************************************************************)
(* SpecMem: the ingestion of a stream of SetMemory and PatchMemory packets *)
(* that patch the start and the end of the data memory.                    *)
(***************************************************************************)
PatchAddresses == {0, 2, VU1_MEMSIZE - 5, VU1_MEMSIZE - 4, VU1_MEMSIZE - 3}
PatchBytes == {<<1, 2, 3, 4>>, <<5, 6, 7, 8>>}

MemPatchMemory == \E address \in PatchAddresses, bytes \in PatchBytes : PatchMemory(address, bytes)

MemNext ==
    \/ DoReadHeader
    \/ SearchSetMemory
    \/ MemPatchMemory
    \/ UnexpectedEof
    \/ EndOfStream

SpecMem == Init /\ [][MemNext]_vars

(***************************************************************************)
(* SpecStore: the ingestion of a version 3 stream that starts with a       *)
(* PushSnapshot packet and goes on with packets of every type, each with   *)
(* one payload.                                                            *)
(***************************************************************************)
\* the first packet of the stream has been applied
Pushed == Len(snapshots) >= 1

StoreHeads == {[len4 |-> TRUE, magic |-> TRUE, len8 |-> TRUE, field |-> MaxVersion]}

StoreReadHeader == \E head \in StoreHeads : ReadHeader(head)
StorePushSnapshot == Len(snapshots) < StoreSnapshots /\ PushSnapshot
StoreSetRegisters == Pushed /\ \E pc \in {INSN_PAIR_SIZE} : SetRegisters(RegsWithPc(pc))
StorePatchRegister == Pushed /\ \E index \in {32 + TPC}, data \in {0} : PatchRegister(index, data)
StoreSetMemory == Pushed /\ \E image \in {ImageWithOnes({5})} : SetMemory(image)
StorePatchMemory == Pushed /\ \E address \in {4}, bytes \in {<<0, 1, 0, 0>>} : PatchMemory(address, bytes)
StoreSetInstructions == Pushed /\ \E image \in {ProgImage(1)} : SetInstructions(image)

StoreLoadOp == Pushed /\ \E l \in LoadInputs : LoadOp(l[1], l[2])
StoreStoreOp == Pushed /\ \E st \in StoreInputs : StoreOp(st[1], st[2])

StoreNext ==
    \/ StoreReadHeader
    \/ StorePushSnapshot
    \/ StoreSetRegisters
    \/ StorePatchRegister
    \/ StoreSetMemory
    \/ StorePatchMemory
    \/ StoreSetInstructions
    \/ StoreLoadOp
    \/ StoreStoreOp
    \/ EndOfStream

SpecStore == Init /\ [][StoreNext]_vars

(***************************************************************************)
(* SpecClick: the ingestion of a version 3 stream of SetRegisters and      *)
(* PushSnapshot packets, then seeks by program counter, clicks on the rows *)
(* of the disassembly and selections in the list of snapshots.             *)
(***************************************************************************)
ClickPushSnapshot == Len(snapshots) < NavSnapshots /\ PushSnapshot
DoClickInstruction == \E i \in ValidPcs : ClickInstruction(i)

ClickNext ==
    \/ StoreReadHeader
    \/ ClickPushSnapshot
    \/ NavSetRegisters
    \/ EndOfStream
    \/ DoSeekSamePc
    \/ DoClickInstruction
    \/ DoSelectSnapshot
    \/ RenderDisassembly

SpecClick == Init /\ [][ClickNext]_vars

(***************************************************************************)
(* SpecCursor: the ingestion of a version 3 stream of SetRegisters, LoadOp *)
(* and PushSnapshot packets, which may hold no PushSnapshot at all, then   *)
(* every operation that moves the cursor.                                  *)
(***************************************************************************)
CursorPushSnapshot == Len(snapshots) < StoreSnapshots /\ PushSnapshot

CursorNext ==
    \/ StoreReadHeader
    \/ CursorPushSnapshot
    \/ NavSetRegisters
    \/ DoLoadOp
    \/ EndOfStream
    \/ KeyW
    \/ KeyS
    \/ DoSeekSamePc
    \/ DoSelectSnapshot
    \/ DoMemAccess
    \/ DoClickInstruction
    \/ KeyWEmptyStore
    \/ KeySEmptyStore
    \/ DoSeekSamePcEmptyStore
    \/ DoMemAccessEmptyStore

SpecCursor == Init /\ [][CursorNext]_vars

(***************************************************************************)
(* SpecShow: the ingestion of a version 3 stream of SetRegisters and       *)
(* PushSnapshot packets, then frames of the disassembly window.            *)
(***************************************************************************)
ShowPushSnapshot == Len(snapshots) < NavSnapshots /\ PushSnapshot

ShowNext ==
    \/ StoreReadHeader
    \/ ShowPushSnapshot
    \/ NavSetRegisters
    \/ EndOfStream
    \/ DoSelectSnapshot
    \/ ShowFallthrough

SpecShow == Init /\ [][ShowNext]_vars

TypeOK ==
    /\ phase \in {"header", "packets", "gui", "exited", "crashed"}
    /\ current_snapshot \in 0..NavSnapshots
    /\ Len(snapshots) <= NavSnapshots

(***************************************************************************)
(* What the claims speak of                                                *)
(***************************************************************************)
NumSnapshots == Len(snapshots)
\* pc[i], the program counter of snapshot i (0-based)
StoredPc(i) == PcOf(SnapAt(snapshots, i))
Slots == 0..(ProgSlots - 1)
\* every address that can key a branch map
MapKeys == PcInputs

\* number of snapshots in the store whose program counter is a
SnapshotsAt(a) == Cardinality({i \in 0..(NumSnapshots - 1) : StoredPc(i) = a})

\* number of adjacent pairs (i, i+1) that go from a to b
PairsFromTo(a, b) ==
    Cardinality({i \in 0..(NumSnapshots - 2) : StoredPc(i) = a /\ StoredPc(i + 1) = b})

\* number of branches from a to b, 0 for a sequential pair
BranchesFromTo(a, b) == IF a + INSN_PAIR_SIZE # b THEN PairsFromTo(a, b) ELSE 0

\* number of times a was reached by sequential fall-through
FallThroughsInto(a) ==
    Cardinality({i \in 0..(NumSnapshots - 2) :
                    StoredPc(i) + INSN_PAIR_SIZE = a /\ StoredPc(i + 1) = a})

\* whether this step appends a snapshot
IsPush == Len(snapshots') = Len(snapshots) + 1

ReadRecord(snap) == <<snap.read_addr, snap.read_size>>
WriteRecord(snap) == <<snap.write_addr, snap.write_size>>

\* C1: while a stream is ingested without a fatal error, and when it has
\* been ingested, the store holds as many snapshots as PushSnapshot packets
\* were applied.
C1_SnapshotCount ==
    phase \in {"packets", "gui"} => NumSnapshots = pushes

C1_Witness ==
    phase = "gui" /\ pushes >= 2 /\ NumSnapshots = pushes

\* C2: times_executed of slot s is the number of snapshots whose program
\* counter is 8*s, and s is marked executed exactly when that number is
\* positive.
C2_TimesExecuted ==
    \A s \in Slots :
        /\ instructions[s].times_executed = SnapshotsAt(s * INSN_PAIR_SIZE)
        /\ instructions[s].is_executed <=> SnapshotsAt(s * INSN_PAIR_SIZE) > 0

C2_Witness ==
    /\ phase = "gui"
    /\ \E s \in Slots : instructions[s].times_executed >= 2
    /\ \E s \in Slots : ~instructions[s].is_executed

\* C3: a push after snapshot i with pc[i] + 8 # pc[i+1] adds one to
\* branch_to[pc[i+1]] of slot pc[i] and to branch_from[pc[i]] of slot
\* pc[i+1] and changes no other branch map entry; a sequential push and
\* the first push change no branch map at all.
C3_BranchStep ==
    IsPush =>
        LET n == Len(snapshots)
            new == PcOf(snapshots'[n + 1])
            branch == n >= 1 /\ StoredPc(n - 1) + INSN_PAIR_SIZE # new
        IN IF branch
           THEN \A s \in Slots : \A k \in MapKeys :
                   /\ MapGet(instructions'[s].branch_to_times, k)
                        = MapGet(instructions[s].branch_to_times, k)
                          + (IF s * INSN_PAIR_SIZE = StoredPc(n - 1) /\ k = new THEN 1 ELSE 0)
                   /\ MapGet(instructions'[s].branch_from_times, k)
                        = MapGet(instructions[s].branch_from_times, k)
                          + (IF s * INSN_PAIR_SIZE = new /\ k = StoredPc(n - 1) THEN 1 ELSE 0)
                   /\ DOMAIN instructions'[s].branch_to_times \subseteq MapKeys
                   /\ DOMAIN instructions'[s].branch_from_times \subseteq MapKeys
           ELSE \A s \in Slots :
                   /\ instructions'[s].branch_to_times = instructions[s].branch_to_times
                   /\ instructions'[s].branch_from_times = instructions[s].branch_from_times

C3_BranchBookkeeping == [][C3_BranchStep]_vars

C3_Witness ==
    /\ NumSnapshots >= 3
    /\ \E i \in 0..(NumSnapshots - 2) : StoredPc(i) + INSN_PAIR_SIZE # StoredPc(i + 1)
    /\ \E i \in 0..(NumSnapshots - 2) : StoredPc(i) + INSN_PAIR_SIZE = StoredPc(i + 1)

\* C4 as claimed: times_executed of the slot at a is the sum of its
\* branch_from counts plus the number of fall-throughs into a.
C4_Original ==
    \A s \in Slots :
        instructions[s].times_executed
            = MapSum(instructions[s].branch_from_times) + FallThroughsInto(s * INSN_PAIR_SIZE)

\* C4 amended: times_executed of the slot at a is the sum of its
\* branch_from counts plus the number of fall-throughs into a, plus one
\* when a is the program counter of the first snapshot, which has no
\* predecessor and is reached neither way.
C4_ExecutionBalance ==
    \A s \in Slots :
        instructions[s].times_executed
            = MapSum(instructions[s].branch_from_times)
              + FallThroughsInto(s * INSN_PAIR_SIZE)
              + (IF NumSnapshots >= 1 /\ StoredPc(0) = s * INSN_PAIR_SIZE THEN 1 ELSE 0)

C4_Witness ==
    /\ phase = "gui"
    /\ \E s \in Slots :
          /\ MapSum(instructions[s].branch_from_times) >= 1
          /\ FallThroughsInto(s * INSN_PAIR_SIZE) >= 1
    /\ \E s \in Slots :
          /\ StoredPc(0) = s * INSN_PAIR_SIZE
          /\ instructions[s].times_executed = 1

\* C5: the branch maps are symmetric and count the branches of the store:
\* branch_to[b] of slot a, branch_from[a] of slot b and the number of
\* adjacent pairs from a to b with a + 8 # b are equal, for all a and b.
C5_BranchSymmetry ==
    \A a \in ValidPcs : \A b \in MapKeys :
        /\ MapGet(instructions[a \div INSN_PAIR_SIZE].branch_to_times, b) = BranchesFromTo(a, b)
        /\ MapGet(instructions[a \div INSN_PAIR_SIZE].branch_from_times, b) = BranchesFromTo(b, a)
        /\ DOMAIN instructions[a \div INSN_PAIR_SIZE].branch_to_times \subseteq ValidPcs
        /\ DOMAIN instructions[a \div INSN_PAIR_SIZE].branch_from_times \subseteq ValidPcs

\* a slot that was left twice for the same target and also for another one
C5_Witness ==
    \E a \in ValidPcs : \E b \in ValidPcs : \E c \in ValidPcs :
        /\ b # c
        /\ MapGet(instructions[a \div INSN_PAIR_SIZE].branch_to_times, b) >= 2
        /\ MapGet(instructions[a \div INSN_PAIR_SIZE].branch_to_times, c) >= 1

\* C6: every snapshot in the store has a program counter that is a
\* multiple of 8 and less than the size of the instruction memory.
C6_StoredPcValid ==
    \A i \in 0..(NumSnapshots - 1) :
        StoredPc(i) % INSN_PAIR_SIZE = 0 /\ StoredPc(i) < VU1_PROGSIZE

\* a push was refused after others had been accepted
C6_Witness ==
    phase = "exited" /\ NumSnapshots >= 1 /\ pushes = NumSnapshots + 1

\* C7: the read record of snapshot i is the payload of the last LoadOp
\* between push i-1 and push i, (0, 0) when there was none, its write
\* record likewise with StoreOp; and the accumulator holds nothing older
\* than the last push.
C7_AccessAttribution ==
    /\ Len(attributed) = NumSnapshots
    /\ \A i \in 0..(NumSnapshots - 1) :
          /\ ReadRecord(SnapAt(snapshots, i)) = attributed[i + 1][1]
          /\ WriteRecord(SnapAt(snapshots, i)) = attributed[i + 1][2]
    /\ phase = "packets" =>
          /\ ReadRecord(current) = pending_load
          /\ WriteRecord(current) = pending_store

\* after a snapshot with a read and a write come one with another read and
\* no write and one without access
C7_Witness ==
    \E i \in 0..(NumSnapshots - 3) :
        /\ SnapAt(snapshots, i).read_size > 0
        /\ SnapAt(snapshots, i).write_size > 0
        /\ SnapAt(snapshots, i + 1).read_size > 0
        /\ ReadRecord(SnapAt(snapshots, i + 1)) # ReadRecord(SnapAt(snapshots, i))
        /\ WriteRecord(SnapAt(snapshots, i + 1)) = <<0, 0>>
        /\ ReadRecord(SnapAt(snapshots, i + 2)) = <<0, 0>>
        /\ WriteRecord(SnapAt(snapshots, i + 2)) = <<0, 0>>

\* the indices after k whose program counter is pc
LaterWithPc(k, pc) == {j \in (k + 1)..(NumSnapshots - 1) : StoredPc(j) = pc}
Least(S) == CHOOSE x \in S : \A y \in S : x <= y

\* C8: seek-by-equal-PC with step +1 from cursor k for pc[k] moves the
\* cursor to the smallest j > k with pc[j] = pc[k] and returns true, or
\* leaves the cursor at k and returns false when there is no such j.
C8_SeekForward ==
    (nav.op = "pc_equal" /\ nav.step = 1 /\ nav.target = StoredPc(nav.from)) =>
        IF LaterWithPc(nav.from, nav.target) # {}
        THEN current_snapshot = Least(LaterWithPc(nav.from, nav.target)) /\ nav.found
        ELSE current_snapshot = nav.from /\ ~nav.found

\* the seek passed over a snapshot with another program counter
C8_Witness ==
    /\ nav.op = "pc_equal" /\ nav.step = 1 /\ nav.found
    /\ current_snapshot = nav.from + 2

\* whether snapshot j accesses the 16-byte block of address
Touches(j, address) ==
    LET snap == SnapAt(snapshots, j)
    IN \/ snap.read_size > 0 /\ snap.read_addr \div 16 = address \div 16
       \/ snap.write_size > 0 /\ snap.write_addr \div 16 = address \div 16

\* the d-th index of the cyclic order k+1, k+2, ..., wrapping to 0, ..., k
CyclicIndex(k, d) == (k + d) % NumSnapshots

\* the first index of the cyclic order from k that touches address
FirstCyclicMatch(k, address) ==
    LET d == Least({e \in 1..NumSnapshots : Touches(CyclicIndex(k, e), address)})
    IN CyclicIndex(k, d)

SomeMatch(address) == \E j \in 0..(NumSnapshots - 1) : Touches(j, address)

Max(x, y) == IF x >= y THEN x ELSE y

\* C9 as claimed: after a seek-by-memory-access from k whose first match is
\* at j, the cursor is max(j - 1, 0).
C9_Original ==
    (nav.op = "mem_access" /\ SomeMatch(nav.target)) =>
        current_snapshot = Max(FirstCyclicMatch(nav.from, nav.target) - 1, 0)

\* C9 amended: after a seek-by-memory-access from k whose first match is at
\* j, the cursor is j - 1 when j >= 1, and is still k when j = 0.
C9_MemAccessCursor ==
    (nav.op = "mem_access" /\ SomeMatch(nav.target)) =>
        LET j == FirstCyclicMatch(nav.from, nav.target)
        IN /\ nav.found
           /\ current_snapshot = (IF j >= 1 THEN j - 1 ELSE nav.from)

\* the scan wrapped past the end and the cursor went back
C9_Witness ==
    /\ nav.op = "mem_access" /\ nav.found
    /\ FirstCyclicMatch(nav.from, nav.target) >= 1
    /\ FirstCyclicMatch(nav.from, nav.target) < nav.from
    /\ current_snapshot = FirstCyclicMatch(nav.from, nav.target) - 1

\* C10: a seek-by-memory-access that finds no match has tested every
\* snapshot exactly once and left the cursor where it was, and a further
\* one from there ends the same way.
C10_NoMatchScan ==
    (nav.op = "mem_access" /\ ~SomeMatch(nav.target)) =>
        /\ ~nav.found
        /\ Len(nav.scanned) = NumSnapshots
        /\ {nav.scanned[d] : d \in 1..Len(nav.scanned)} = 0..(NumSnapshots - 1)
        /\ current_snapshot = nav.from
        /\ LET again == MemScan(snapshots, current_snapshot, current_snapshot,
                                nav.target, <<>>)
           IN ~again.found /\ again.scanned = nav.scanned

C10_Witness ==
    /\ nav.op = "mem_access" /\ ~nav.found
    /\ NumSnapshots >= 3
    /\ nav.from = 1
    /\ \E j \in 0..(NumSnapshots - 1) : SnapAt(snapshots, j).read_size > 0

\* the index at which the scan of the last seek-by-memory-access stopped
StoppedAt == nav.scanned[Len(nav.scanned)]

\* C11 as claimed: a seek-by-memory-access that moved the cursor left it on
\* a snapshot that touches the 16-byte block of the target.
C11_Original ==
    (nav.op = "mem_access" /\ nav.fault = "none" /\ current_snapshot # nav.from) =>
        Touches(current_snapshot, nav.target)

\* C11 amended: a seek-by-memory-access reports a match only at a snapshot
\* that touches the 16-byte block of the target with a read or a write of
\* size > 0, and when it moved the cursor, it left it on the index before
\* that snapshot.
C11_SeekStopsBeforeMatch ==
    (nav.op = "mem_access" /\ nav.fault = "none") =>
        /\ nav.found => StoppedAt < NumSnapshots /\ Touches(StoppedAt, nav.target)
        /\ current_snapshot # nav.from =>
              /\ nav.found
              /\ current_snapshot + 1 = StoppedAt

\* the seek went by a snapshot without access and one that reads another
\* block, to one that touches the block of the target by a write only
C11_Witness ==
    /\ nav.op = "mem_access" /\ nav.found
    /\ current_snapshot # nav.from
    /\ ~Touches(current_snapshot, nav.target)
    /\ SnapAt(snapshots, current_snapshot + 1).write_size > 0
    /\ SnapAt(snapshots, current_snapshot + 1).read_size > 0
    /\ SnapAt(snapshots, current_snapshot + 1).read_addr \div 16 # nav.target \div 16
    /\ \E j \in 0..(NumSnapshots - 1) :
          SnapAt(snapshots, j).read_size = 0 /\ SnapAt(snapshots, j).write_size = 0

\* the memory image the last search looked through
SearchedMemory == SnapAt(snapshots, nav.from).memory

\* the addresses at which the pattern of the last search lies in that image
Occurrences ==
    {a \in 0..(VU1_MEMSIZE - Len(nav.pattern)) :
        \A k \in 1..Len(nav.pattern) : SearchedMemory[a + k - 1] = nav.pattern[k]}

\* the address a report names, as a sequence of hexadecimal digits
RECURSIVE HexValue(_)
HexValue(digits) ==
    IF digits = <<>> THEN 0
    ELSE 16 * HexValue(SubSeq(digits, 1, Len(digits) - 1)) + digits[Len(digits)]

\* C12: a search for a byte pattern reports the lowest address at which the
\* pattern lies within the memory image, the last possible address
\* included, reports no match exactly when it lies nowhere, and reads
\* nothing outside the image, whatever the length of the pattern.
C12_LowestMatch ==
    (nav.op = "find_bytes" /\ found_bytes.is_open) =>
        /\ nav.fault = "none"
        /\ IF Occurrences # {}
           THEN /\ Len(found_bytes.text) = 2
                /\ HexValue(found_bytes.text[2]) = Least(Occurrences)
           ELSE found_bytes.text = <<"No match found">>

\* C13: a search for a pattern that lies at address a of the memory image
\* reports a match at an address <= a.
C13_RoundTrip ==
    (nav.op = "find_bytes" /\ found_bytes.is_open) =>
        \A a \in Occurrences :
            /\ Len(found_bytes.text) = 2
            /\ HexValue(found_bytes.text[2]) <= a

\* whether the stream of head begins with the magic tag
BeginsWithMagic(head) == head.len4 /\ head.magic

\* C14: a stream that does not begin with the magic tag, however short, is
\* taken as version 1 and its packets are read from offset 0.
C14_HeaderlessStep ==
    (phase = "header" /\ ~BeginsWithMagic(trace'.head)) =>
        /\ phase' = "packets"
        /\ version' = 1
        /\ trace'.start = 0

C14_Headerless == [][C14_HeaderlessStep]_vars

\* C15: a stream with the magic tag and a version field above 3 is given
\* up before any packet is applied, no snapshot is ever stored; with a
\* version field of 1, 2 or 3 the header is accepted and the packets are
\* read as packets of that version.
C15_VersionGate ==
    (phase # "header" /\ BeginsWithMagic(trace.head) /\ trace.head.len8) =>
        IF trace.head.field > 3
        THEN /\ phase = "exited"
             /\ trace.report.message = "Format version too new"
             /\ NumSnapshots = 0
             /\ pushes = 0
        ELSE /\ trace.report.message # "Format version too new"
             /\ phase = "packets" => version = trace.head.field

\* a version 2 stream whose registers were set and pushed
C15_Witness ==
    /\ BeginsWithMagic(trace.head) /\ trace.head.field = 2
    /\ phase = "packets" /\ version = 2
    /\ NumSnapshots >= 1
    /\ StoredPc(NumSnapshots - 1) # 0

\* C18: a byte at a packet boundary that is no packet type ends the
\* ingestion with a report of that byte and of the offset of that byte (at
\* counts from that offset).
C18_InvalidPacketReport ==
    trace.report.message = "Invalid packet type" =>
        /\ phase = "exited"
        /\ trace.report.packet_type \in OtherBytes
        /\ trace.report.at = 0

\* what the claim lets a PatchRegister packet with this index and this
\* value do
PatchRegisterFrame(index, data) ==
    IF index > 66
    THEN /\ phase' = "exited"
         /\ UNCHANGED <<snapshots, instructions>>
    ELSE /\ phase' = "packets"
         /\ \A i \in 0..31 :
               /\ current'.registers.VF[i] =
                      (IF index = i THEN data ELSE current.registers.VF[i])
               /\ current'.registers.VI[i] =
                      (IF index = 32 + i THEN data ELSE current.registers.VI[i])
         /\ current'.registers.ACC = (IF index = 64 THEN data ELSE current.registers.ACC)
         /\ current'.registers.q = (IF index = 65 THEN data ELSE current.registers.q)
         /\ current'.registers.p = (IF index = 66 THEN data ELSE current.registers.p)
         /\ current'.memory = current.memory
         /\ current'.program = current.program
         /\ ReadRecord(current') = ReadRecord(current)
         /\ WriteRecord(current') = WriteRecord(current)
         /\ UNCHANGED <<snapshots, instructions>>

\* C16: a PatchRegister packet with index 0..31 changes vector register
\* index, with 32..63 integer register index - 32, with 64 the accumulator
\* register, with 65 q, with 66 p, and nothing else of the accumulated
\* state; with an index above 66 it ends the ingestion.
C16_PatchStep ==
    \A index \in RegIndices, data \in PatchData :
        PatchRegister(index, data) => PatchRegisterFrame(index, data)

C16_PatchRegisterFrame == [][C16_PatchStep]_vars

\* the last integer register and q were patched in a register file that a
\* SetRegisters packet had filled, with a read and a write on record
C16_Witness ==
    /\ phase = "packets"
    /\ current.registers.VI[31] = 7
    /\ current.registers.VI[30] = 9
    /\ current.registers.q = 7
    /\ current.registers.p = 9
    /\ current.registers.VF[0] = 9
    /\ current.read_size > 0
    /\ current.write_size > 0

\* C17: a PatchMemory packet is accepted exactly when its address is at most
\* memory_size - 4, and then overwrites the 4 bytes from that address on in
\* the accumulated memory image and nothing else; with a larger address it
\* ends the ingestion.
C17_PatchStep ==
    \A address \in PatchAddresses, bytes \in PatchBytes :
        PatchMemory(address, bytes) =>
            IF address <= VU1_MEMSIZE - 4
            THEN /\ phase' = "packets"
                 /\ \A a \in 0..(VU1_MEMSIZE - 1) :
                       current'.memory[a] =
                          (IF a \in address..(address + 3) THEN bytes[a - address + 1]
                           ELSE current.memory[a])
                 /\ current'.registers = current.registers
                 /\ current'.program = current.program
                 /\ ReadRecord(current') = ReadRecord(current)
                 /\ WriteRecord(current') = WriteRecord(current)
                 /\ UNCHANGED <<snapshots, instructions>>
            ELSE phase' = "exited"

C17_PatchMemoryBound == [][C17_PatchStep]_vars

\* C19: once a truncated read or another fatal error has been reported no
\* packet is applied any more and no navigation operation runs, and a
\* navigation operation only ever runs in a session whose stream was
\* consumed to its end without error.
C19_Step ==
    /\ trace.report # NoReport =>
          /\ phase = "exited"
          /\ UNCHANGED <<appvars, current, nav, windows>>
    /\ nav' # nav =>
          /\ trace.report = NoReport
          /\ phase = "gui"
    /\ (phase' = "gui" /\ phase # "gui") =>
          /\ phase = "packets"
          /\ trace'.report = NoReport

C19_AbortOnFirstError == [][C19_Step]_vars /\ [](trace.report # NoReport => phase = "exited")

\* the stream broke off behind two snapshots, and nothing has navigated
C19_Witness ==
    /\ phase = "exited"
    /\ trace.report.message = "Unexpected end of file"
    /\ NumSnapshots = 2
    /\ nav = NoNav

\* C20: in a session built by a successful ingestion, be its store empty,
\* the seeks by program counter and by memory access end with a match or
\* without one, and read no snapshot outside the store and divide by no
\* zero.
C20_NavigatorsNeverFail ==
    nav.op \in {"pc_equal", "mem_access"} =>
        /\ nav.fault = "none"
        /\ phase = "gui"

\* C21: a snapshot that is in the store stays in it, at its index, with the
\* registers, memory image, instruction image and access records it was
\* stored with, whatever packet is applied afterwards.
C21_Step ==
    /\ Len(snapshots') >= Len(snapshots)
    /\ \A i \in 0..(Len(snapshots) - 1) : SnapAt(snapshots', i) = SnapAt(snapshots, i)

C21_StoredSnapshotsFrozen == [][C21_Step]_vars

\* two snapshots that differ are in the store, and the accumulator has
\* since been changed in its registers, both images and both access records
C21_Witness ==
    /\ phase = "packets"
    /\ NumSnapshots = 2
    /\ SnapAt(snapshots, 0) # SnapAt(snapshots, 1)
    /\ current.registers # SnapAt(snapshots, 1).registers
    /\ current.memory # SnapAt(snapshots, 1).memory
    /\ current.program # SnapAt(snapshots, 1).program
    /\ ReadRecord(current) # ReadRecord(SnapAt(snapshots, 1))
    /\ WriteRecord(current) # WriteRecord(SnapAt(snapshots, 1))

\* C22: a SetRegisters packet of a version 1 or version 2 stream leaves in
\* the vector registers, the integer registers, ACC, q and p the values its
\* payload carries for them, which is what the packet of a version 3 stream
\* leaves there, and every other field of the register file keeps its value.
C22_Step ==
    \A payload \in LegacyPayloads :
        SetRegisters(payload) =>
            /\ DOMAIN current'.registers = DOMAIN current.registers
            /\ \A f \in LegacyFields : current'.registers[f] = payload[f]
            /\ \A f \in (DOMAIN current.registers) \ LegacyFields :
                   current'.registers[f] = current.registers[f]

C22_LegacySetRegisters == [][C22_Step]_vars

\* a legacy stream has set every register to 9 from a payload whose other
\* fields hold 9 too, and a later packet has patched register p
C22_Witness ==
    /\ phase = "packets"
    /\ version \in {1, 2}
    /\ \A i \in 0..(NumRegs - 1) : current.registers.VF[i] = 9 /\ current.registers.VI[i] = 9
    /\ current.registers.ACC = 9
    /\ current.registers.q = 9
    /\ current.registers.p = 7
    /\ current.registers.rest = 0
\* C23: a PushSnapshot packet that finds the program counter of the
\* accumulator at or past the size of the instruction memory, or not a
\* multiple of 8, ends the ingestion with the snapshot store and every
\* instruction slot as they were before the packet.
C23_BadPc(pc) == pc >= VU1_PROGSIZE \/ pc % INSN_PAIR_SIZE # 0

C23_Step ==
    (PushSnapshot /\ C23_BadPc(PcOf(current))) =>
        /\ phase' = "exited"
        /\ snapshots' = snapshots
        /\ instructions' = instructions

C23_BadPcAppendsNothing == [][C23_Step]_vars

\* the ingestion has ended for a bad program counter after a snapshot had
\* been stored and counted
C23_Witness ==
    /\ phase = "exited"
    /\ trace.report.message = "Bad program counter value"
    /\ NumSnapshots >= 1
    /\ \E s \in Slots : instructions[s].is_executed /\ instructions[s].times_executed >= 1
\* C24: SetRegisters changes only the register file of the accumulator,
\* SetMemory only its data memory image, SetInstructions only its
\* instruction memory image, LoadOp only its read access record and StoreOp
\* only its write access record; none of them changes the snapshot store or
\* the instruction slots.
C24_Only(fields) ==
    /\ DOMAIN current' = DOMAIN current
    /\ \A f \in (DOMAIN current) \ fields : current'[f] = current[f]
    /\ snapshots' = snapshots
    /\ instructions' = instructions

C24_Step ==
    /\ StoreSetRegisters => C24_Only({"registers"})
    /\ StoreSetMemory => C24_Only({"memory"})
    /\ StoreSetInstructions => C24_Only({"program"})
    /\ StoreLoadOp => C24_Only({"read_addr", "read_size"})
    /\ StoreStoreOp => C24_Only({"write_addr", "write_size"})

C24_WholeFieldFrame == [][C24_Step]_vars

\* each of the five packets has been applied since the one snapshot of the
\* store was pushed
C24_Witness ==
    /\ phase = "packets"
    /\ NumSnapshots = 1
    /\ instructions[0].times_executed = 1
    /\ current.registers = RegsWithPc(INSN_PAIR_SIZE)
    /\ current.memory = ImageWithOnes({5})
    /\ current.program = ProgImage(1)
    /\ ReadRecord(current) \in LoadInputs
    /\ WriteRecord(current) \in StoreInputs
\* the indices before k whose program counter is pc
EarlierWithPc(k, pc) == {j \in 0..(k - 1) : StoredPc(j) = pc}
Greatest(S) == CHOOSE x \in S : \A y \in S : x >= y

\* where a seek-by-equal-PC with step -1 from k for pc is to leave the cursor
BackwardSeek(k, pc) ==
    IF EarlierWithPc(k, pc) # {} THEN Greatest(EarlierWithPc(k, pc)) ELSE k

\* C25: seek-by-equal-PC with step -1 from cursor k for a target program
\* counter moves the cursor to the largest j < k with pc[j] = target and
\* returns true, or leaves the cursor at k and returns false when there is
\* no such j; in both directions it returns true exactly when the cursor has
\* changed. The seeks are those of the keys and buttons, whose target is
\* pc[k], and those of a click on a row of the disassembly, whose target is
\* the address of the row: the first of them, and the second one when the
\* first has returned false.
C25_SeekBackward ==
    /\ (nav.op = "pc_equal" /\ nav.step = -1) =>
           /\ current_snapshot = BackwardSeek(nav.from, nav.target)
           /\ nav.found <=> EarlierWithPc(nav.from, nav.target) # {}
    /\ nav.op = "pc_equal" => (nav.found <=> current_snapshot # nav.from)
    /\ (nav.op = "click" /\ nav.step = -1) =>
           /\ nav.scanned[1] = BackwardSeek(nav.from, nav.target)
           /\ Len(nav.scanned) = 1 <=> EarlierWithPc(nav.from, nav.target) # {}
    /\ (nav.op = "click" /\ nav.step = 1 /\ Len(nav.scanned) = 2) =>
           /\ nav.scanned[1] = nav.from
           /\ nav.scanned[2] = BackwardSeek(nav.from, nav.target)
    /\ nav.op = "click" =>
           /\ current_snapshot = nav.scanned[Len(nav.scanned)]
           /\ nav.found <=> current_snapshot # nav.from

\* a click on a row has moved the cursor back over no snapshot, to the later
\* of two snapshots that have the program counter of the row
C25_Witness ==
    /\ nav.op = "click" /\ nav.step = -1 /\ nav.found
    /\ Cardinality(EarlierWithPc(nav.from, nav.target)) = 2
    /\ current_snapshot = 1
\* C26: the seeks by program counter and by memory access and the steps to
\* the previous and the next snapshot change neither the snapshot store nor
\* the instruction slots, and no step of the ingestion changes the cursor.
C26_Navigation ==
    \/ KeyW \/ KeyS \/ DoSeekSamePc \/ DoMemAccess \/ DoClickInstruction
    \/ KeyWEmptyStore \/ KeySEmptyStore
    \/ DoSeekSamePcEmptyStore \/ DoMemAccessEmptyStore

C26_Ingestion ==
    \/ StoreReadHeader \/ CursorPushSnapshot \/ NavSetRegisters \/ DoLoadOp
    \/ EndOfStream

C26_Step ==
    /\ C26_Navigation =>
           /\ snapshots' = snapshots
           /\ instructions' = instructions
    /\ C26_Ingestion => current_snapshot' = current_snapshot

C26_NavigationFrame == [][C26_Step]_vars

\* a store of two snapshots has been ingested and a seek by memory access
\* has moved the cursor
C26_Witness ==
    /\ phase = "gui"
    /\ NumSnapshots = 2
    /\ nav.op = "mem_access" /\ nav.found
    /\ current_snapshot # nav.from
\* the 8 bytes of image from address on
PairBytes(image, address) == [k \in 0..(INSN_PAIR_SIZE - 1) |-> image[address + k]]

\* C27: the text of every instruction slot s is computed once, when the
\* stream ends, from the 8 bytes at 8s of the instruction memory image that
\* the accumulator holds then and from the address 8s; no other step of a
\* session writes it.
C27_Step ==
    IF EndOfStream
    THEN \A s \in DOMAIN instructions :
            instructions'[s].disassembly =
                <<PairBytes(current.program, s * INSN_PAIR_SIZE), s * INSN_PAIR_SIZE>>
    ELSE \A s \in DOMAIN instructions :
            instructions'[s].disassembly = instructions[s].disassembly

C27_DisassemblyAtEnd == [][C27_Step]_vars /\ [](phase = "packets" => \A s \in DOMAIN instructions : instructions[s].disassembly = <<>>)

\* the stream has ended on an instruction memory image that none of the two
\* snapshots of the store holds, and the slots have their text from it
C27_Witness ==
    /\ phase = "gui"
    /\ NumSnapshots = 2
    /\ \A i \in 0..(NumSnapshots - 1) : SnapAt(snapshots, i).program # ProgImage(1)
    /\ \A s \in DOMAIN instructions :
           instructions[s].disassembly =
               <<PairBytes(ProgImage(1), s * INSN_PAIR_SIZE), s * INSN_PAIR_SIZE>>
\* C28: the incoming fall-through count drawn for a slot that has
\* branch_from_times entries is times_executed of that slot less the sum of
\* its branch_from_times counts; it is not below 0, and no slot past the last
\* one is read for it.
C28_IncomingFallthrough ==
    /\ shown.fault = "none"
    /\ \A s \in DOMAIN shown.incoming :
           /\ shown.incoming[s] =
                  instructions[s].times_executed - MapSum(instructions[s].branch_from_times)
           /\ shown.incoming[s] >= 0
\* C29: once a stream has been ingested the cursor is the index of a
\* snapshot of the store, whatever navigation events follow: a step to the
\* next snapshot at the last index and a step to the previous one at index
\* 0 leave it where it is; with a store of no snapshot, where there is no
\* such index, the cursor stays at 0.
C29_CursorInStore ==
    phase \in {"gui", "crashed"} =>
        /\ current_snapshot >= 0
        /\ IF NumSnapshots = 0 THEN current_snapshot = 0
           ELSE current_snapshot < NumSnapshots
        /\ (nav.op = "next" /\ nav.from >= NumSnapshots - 1) => current_snapshot = nav.from
        /\ (nav.op = "prev" /\ nav.from = 0) => current_snapshot = 0
====
